---------------------------- MODULE Spec2Model ----------------------------
(***************************************************************************)
(* The loss functions of algorithm/utils_loss.py as a state machine: a    *)
(* caller invokes one forward() with concrete tensors, the forward runs,   *)
(* and it returns a value or raises.  A definition marked "mutant" is the  *)
(* definition after it with a slip; no specification uses it.              *)
(*                                                                         *)
(* Numbers.  Tensors are tuples (vectors) and tuples of tuples (matrices), *)
(* indexed from 1 (row r of the model is row r-1 of the source).  The code *)
(* computes with exp and log; the model computes with exact real numbers   *)
(* in the only shape these functions produce, a ratio of exponential sums: *)
(*    an exponential sum  c1*e^(k1/u) + ... + cn*e^(kn/u)  is the function *)
(*    k |-> c (integer exponents k, nonzero integer coefficients c), the   *)
(*    unit u being the numerator of the temperature of the call;           *)
(*    a number is a record [n |-> sum, d |-> sum] standing for n/d, with   *)
(*    d the empty sum for the non-finite results of a division by zero     *)
(*    (0/0 is NaN, x/0 is infinite).                                       *)
(* Since e is transcendental two exponential sums are equal as reals       *)
(* exactly when they are equal as functions.  Floating-point rounding is   *)
(* not modelled.                                                           *)
(***************************************************************************)
EXTENDS Integers, Sequences, FiniteSets, TLC

VARIABLES pc, args, loc, ret, confidence_store, last_call

vars == <<pc, args, loc, ret, confidence_store, last_call>>

(***************************************************************************)
(* Bounds of the model                                                     *)
(***************************************************************************)
\* the largest batch size N a caller passes
MaxN == 2

\* Python's None; no caller of the model passes an empty tensor
None == <<>>

(***************************************************************************)
(* Integer helpers                                                         *)
(***************************************************************************)
RECURSIVE SumSeq(_)
SumSeq(s) == IF s = <<>> THEN 0 ELSE Head(s) + SumSeq(Tail(s))

RECURSIVE MaxSeq(_)
MaxSeq(s) == IF Len(s) = 1 THEN s[1]
             ELSE LET m == MaxSeq(Tail(s)) IN IF s[1] >= m THEN s[1] ELSE m

Dot(a, b) == SumSeq([k \in 1..Len(a) |-> a[k] * b[k]])

\* the Euclidean norm of a vector whose norm is an integer
Norm(a) == CHOOSE n \in 0..Dot(a, a) : n * n = Dot(a, a)

(***************************************************************************)
(* Exponential sums and their ratios                                       *)
(***************************************************************************)
PZero == [k \in {} |-> 0]

PNorm(f) == [k \in {x \in DOMAIN f : f[x] # 0} |-> f[k]]

PConst(c) == PNorm([k \in {0} |-> c])

\* c * e^(k/u): what torch.exp gives for the logit k/u, scaled by c
PExp(c, k) == PNorm([x \in {k} |-> c])

PCoef(p, k) == IF k \in DOMAIN p THEN p[k] ELSE 0

PAdd(p, q) == PNorm([k \in DOMAIN p \cup DOMAIN q |-> PCoef(p, k) + PCoef(q, k)])

PScale(c, p) == PNorm([k \in DOMAIN p |-> c * p[k]])

RECURSIVE PMulTerms(_, _, _)
PMulTerms(ks, p, q) ==
    IF ks = {} THEN PZero
    ELSE LET k == CHOOSE x \in ks : TRUE
         IN PAdd([x \in {k + j : j \in DOMAIN q} |-> p[k] * q[x - k]],
                 PMulTerms(ks \ {k}, p, q))

PMul(p, q) == PMulTerms(DOMAIN p, p, q)

RECURSIVE PSumSeq(_)
PSumSeq(s) == IF s = <<>> THEN PZero ELSE PAdd(Head(s), PSumSeq(Tail(s)))

RECURSIVE PProdSeq(_)
PProdSeq(s) == IF s = <<>> THEN PConst(1) ELSE PMul(Head(s), PProdSeq(Tail(s)))

R(n, d) == [n |-> n, d |-> d]
RInt(c) == R(PConst(c), PConst(1))
RZero == RInt(0)
ROne == RInt(1)
\* a + b, a * b and a / b; two finite numbers over one denominator are added
\* and divided without multiplying the denominators out (the same value)
RAdd(a, b) == IF a.d = b.d /\ a.d # PZero THEN R(PAdd(a.n, b.n), a.d)
              ELSE R(PAdd(PMul(a.n, b.d), PMul(b.n, a.d)), PMul(a.d, b.d))
RMul(a, b) == R(PMul(a.n, b.n), PMul(a.d, b.d))
RDiv(a, b) == IF a.d = b.d /\ a.d # PZero THEN R(a.n, b.n)
              ELSE R(PMul(a.n, b.d), PMul(a.d, b.n))
RFinite(a) == a.d # PZero
IsNaN(a) == a.d = PZero /\ a.n = PZero
REq(a, b) == RFinite(a) /\ RFinite(b) /\ PMul(a.n, b.d) = PMul(b.n, a.d)
RIsZero(a) == RFinite(a) /\ a.n = PZero

RECURSIVE RSumSeq(_)
RSumSeq(s) == IF s = <<>> THEN RZero ELSE RAdd(Head(s), RSumSeq(Tail(s)))

(***************************************************************************)
(* class InfoNCE                                                           *)
(***************************************************************************)
\* embeddings whose pairwise cosines are integers: axis-aligned vectors
InfoNCE_Vectors == {<<1, 0>>, <<0, 1>>, <<-1, 0>>, <<0, 2>>}

\* temperature as numerator/denominator: 1.0 (the default) and 0.5
InfoNCE_Temperatures == {<<1, 1>>, <<1, 2>>}

\* F.cosine_similarity of two vectors (exact on InfoNCE_Vectors)
CosineSimilarity(a, b) == Dot(a, b) \div (Norm(a) * Norm(b))

\* torch.diag(M, k): the k-th diagonal of a square matrix, k > 0 above the main one
Diag(M, k) ==
    IF k >= 0 THEN [i \in 1..(Len(M) - k) |-> M[i][i + k]]
    ELSE [i \in 1..(Len(M) + k) |-> M[i - k][i]]

\* mutant: InfoNCE line 19 without the negation of the identity: nothing is masked
NotEye_nothing_masked(n) == [r \in 1..n |-> [c \in 1..n |-> 1]]

\* ~torch.eye(n, n, dtype=bool) as floats
NotEye(n) == [r \in 1..n |-> [c \in 1..n |-> IF r = c THEN 0 ELSE 1]]

\* InfoNCE.forward(z_i, z_j) with self.temperature = T: the locals of the call
InfoNCE_locals(z_i, z_j, T) ==
    LET batch_size == Len(z_i)
        z          == z_i \o z_j
        similarity == [r \in 1..Len(z) |-> [c \in 1..Len(z) |->
                          CosineSimilarity(z[r], z[c])]]
        sim_ij     == Diag(similarity, batch_size)
        sim_ji     == Diag(similarity, -batch_size)
        positives  == sim_ij \o sim_ji
        mask       == NotEye(batch_size * 2)
        \* x / T for T = tn/td is (x * td)/tn: exponents are kept in units of 1/tn
        numerator  == [r \in 1..Len(positives) |-> PExp(1, positives[r] * T[2])]
        denominator == [r \in 1..Len(z) |-> [c \in 1..Len(z) |->
                          PExp(mask[r][c], similarity[r][c] * T[2])]]
        \* -log(numerator / sum(denominator, dim=1)), kept as the ratio under the log
        all_losses == [r \in 1..Len(z) |->
                          [neglog |-> R(numerator[r], PSumSeq(denominator[r]))]]
    IN  [batch_size |-> batch_size, similarity |-> similarity,
         positives |-> positives, mask |-> mask, numerator |-> numerator,
         denominator |-> denominator, all_losses |-> all_losses,
         \* torch.sum(all_losses) / (2 * batch_size)
         loss |-> [sum_of |-> all_losses, divided_by |-> 2 * batch_size]]

InfoNCE_call ==
    /\ pc = "idle"
    /\ \E N \in 1..MaxN, T \in InfoNCE_Temperatures :
       \E zi \in [1..N -> InfoNCE_Vectors], zj \in [1..N -> InfoNCE_Vectors] :
          args' = [fn |-> "InfoNCE", z_i |-> zi, z_j |-> zj, temperature |-> T]
    /\ pc' = "InfoNCE.forward"
    /\ UNCHANGED <<loc, ret, confidence_store, last_call>>

InfoNCE_forward ==
    /\ pc = "InfoNCE.forward"
    /\ loc' = InfoNCE_locals(args.z_i, args.z_j, args.temperature)
    /\ ret' = [loss |-> loc'.loss]
    /\ pc' = "returned"
    /\ UNCHANGED <<args, confidence_store, last_call>>

(***************************************************************************)
(* Broadcasting of matrices (torch's rule for elementwise operations)      *)
(***************************************************************************)
Rows(M) == Len(M)
Cols(M) == Len(M[1])

\* the size two sizes broadcast to; 0 when they cannot be broadcast
BDim(a, b) == IF a = b THEN a ELSE IF a = 1 THEN b ELSE IF b = 1 THEN a ELSE 0

Broadcastable(A, B) == BDim(Rows(A), Rows(B)) # 0 /\ BDim(Cols(A), Cols(B)) # 0

\* entry (r, c) of M seen at a broadcast shape
At(M, r, c) == M[IF Rows(M) = 1 THEN 1 ELSE r][IF Cols(M) = 1 THEN 1 ELSE c]

\* A op B elementwise, for broadcastable A and B
Elementwise(Op(_, _), A, B) ==
    [r \in 1..BDim(Rows(A), Rows(B)) |-> [c \in 1..BDim(Cols(A), Cols(B)) |->
        Op(At(A, r, c), At(B, r, c))]]

Times(x, y) == x * y
Minus(x, y) == x - y

Eye(n) == [r \in 1..n |-> [c \in 1..n |-> IF r = c THEN 1 ELSE 0]]
OnesLike(M) == [r \in 1..Rows(M) |-> [c \in 1..Cols(M) |-> 1]]

(***************************************************************************)
(* class InfoNCE2                                                          *)
(***************************************************************************)
InfoNCE2_Vectors == {<<1, 0>>, <<0, 1>>}

\* (temperature, scale_by_temperature): the defaults, and 0.5 with scaling
InfoNCE2_Configs == {[temperature |-> <<1, 1>>, scale_by_temperature |-> FALSE],
                     [temperature |-> <<1, 2>>, scale_by_temperature |-> TRUE]}

InfoNCE2_LabelValues == {0, 1}

\* what the caller may pass as labels: class ids, of any length up to MaxN + 1
InfoNCE2_Labels == UNION {[1..L -> InfoNCE2_LabelValues] : L \in 1..(MaxN + 1)}

\* what the caller may pass as mask with N features: an N x N 0/1 matrix, its
\* first row alone (1 x N), or the matrix with its last row repeated (N+1 x N)
InfoNCE2_Masks(N) ==
    LET square == [1..N -> [1..N -> {0, 1}]]
    IN  square \cup {<<m[1]>> : m \in square} \cup {Append(m, m[N]) : m \in square}

\* mutant: InfoNCE2 lines 45-49 without the test of the number of labels
InfoNCE2_check_input_no_length_test(features, labels, mask) ==
    LET batch_size == Len(features)
    IN  IF labels # None /\ mask # None
        THEN [raised |-> "ValueError: Cannot define both labels and mask"]
        ELSE IF labels = None /\ mask = None
        THEN [batch_size |-> batch_size, mask |-> Eye(batch_size)]
        ELSE IF labels # None
        THEN [batch_size |-> batch_size,
              mask |-> [r \in 1..Len(labels) |-> [c \in 1..Len(labels) |->
                          IF labels[r] = labels[c] THEN 1 ELSE 0]]]
        ELSE [batch_size |-> batch_size, mask |-> mask]

\* mutant: InfoNCE2 lines 50-51 with a test of the mask's row count, as for the labels
InfoNCE2_check_input_mask_rows_tested(features, labels, mask) ==
    LET batch_size == Len(features)
    IN  IF labels # None /\ mask # None
        THEN [raised |-> "ValueError: Cannot define both labels and mask"]
        ELSE IF labels = None /\ mask = None
        THEN [batch_size |-> batch_size, mask |-> Eye(batch_size)]
        ELSE IF labels # None
        THEN IF Len(labels) # batch_size
             THEN [raised |-> "ValueError: Num of labels does not match num of features"]
             ELSE [batch_size |-> batch_size,
                   mask |-> [r \in 1..Len(labels) |-> [c \in 1..Len(labels) |->
                               IF labels[r] = labels[c] THEN 1 ELSE 0]]]
        ELSE IF Len(mask) # batch_size
             THEN [raised |-> "ValueError: Num of mask rows does not match num of features"]
             ELSE [batch_size |-> batch_size, mask |-> mask]

\* lines 39-51: "check input"; the mask to use, or the error raised
InfoNCE2_check_input(features, labels, mask) ==
    LET batch_size == Len(features)
    IN  IF labels # None /\ mask # None
        THEN [raised |-> "ValueError: Cannot define both labels and mask"]
        ELSE IF labels = None /\ mask = None
        THEN [batch_size |-> batch_size, mask |-> Eye(batch_size)]
        ELSE IF labels # None
        THEN \* labels.contiguous().view(-1, 1): one label per row
             IF Len(labels) # batch_size
             THEN [raised |-> "ValueError: Num of labels does not match num of features"]
             ELSE [batch_size |-> batch_size,
                   \* torch.eq(labels, labels.T).float()
                   mask |-> [r \in 1..Len(labels) |-> [c \in 1..Len(labels) |->
                               IF labels[r] = labels[c] THEN 1 ELSE 0]]]
        ELSE [batch_size |-> batch_size, mask |-> mask]

\* lines 53-57: "compute logits"; x / T for T = tn/td is (x * td)/tn, and the
\* logits are kept as their numerators over tn
InfoNCE2_compute_logits(features, T) ==
    LET anchor_dot_contrast == [r \in 1..Len(features) |-> [c \in 1..Len(features) |->
                                   Dot(features[r], features[c]) * T[2]]]
        logits_max == [r \in 1..Len(features) |-> <<MaxSeq(anchor_dot_contrast[r])>>]
        logits     == Elementwise(Minus, anchor_dot_contrast, logits_max)
        exp_logits == [r \in 1..Rows(logits) |-> [c \in 1..Cols(logits) |->
                          PExp(1, logits[r][c])]]
    IN  [anchor_dot_contrast |-> anchor_dot_contrast, logits_max |-> logits_max,
         logits |-> logits, exp_logits |-> exp_logits]

\* torch.sum(M, axis=1) of a matrix of integers
RowSums(M) == [r \in 1..Rows(M) |-> SumSeq(M[r])]

\* torch.sum(exp_logits * m, axis=1, keepdims=True) for a 0/1 matrix m
MaskedExpSums(exp_logits, m) ==
    LET prod == Elementwise(LAMBDA e, w : PScale(w, e), exp_logits, m)
    IN  [r \in 1..Rows(prod) |-> <<PSumSeq(prod[r])>>]

\* lines 60-66: "make mask"; an elementwise operation on shapes that cannot be
\* broadcast raises torch's RuntimeError
InfoNCE2_make_mask(l) ==
    IF ~Broadcastable(l.mask, Eye(l.batch_size))
    THEN [raised |-> "RuntimeError: The size of tensor a must match the size of tensor b"]
    ELSE
    LET logits_mask    == Elementwise(Minus, OnesLike(l.mask), Eye(l.batch_size))
        positives_mask == Elementwise(Times, l.mask, logits_mask)
        negatives_mask == [r \in 1..Rows(l.mask) |-> [c \in 1..Cols(l.mask) |->
                              1 - l.mask[r][c]]]
        num_positives_per_row == RowSums(positives_mask)
        denominator    == Elementwise(PAdd, MaskedExpSums(l.exp_logits, negatives_mask),
                                            MaskedExpSums(l.exp_logits, positives_mask))
        \* logits - torch.log(denominator + 1e-12): entry = logit/tn - log(den + 1e-12)
        log_probs      == Elementwise(LAMBDA k, d : [logit |-> k, den |-> d, eps |-> TRUE],
                                      l.logits, denominator)
    IN  [logits_mask |-> logits_mask, positives_mask |-> positives_mask,
         negatives_mask |-> negatives_mask,
         num_positives_per_row |-> num_positives_per_row,
         denominator |-> denominator, log_probs |-> log_probs]

\* torch.isnan of a log-probability: the logit and the denominator are finite
\* and the denominator plus 1e-12 is positive, unless a coefficient is negative
LogProbIsNaN(lp) == \E k \in DOMAIN lp.den : lp.den[k] < 0

\* line 68: torch.any(torch.isnan(log_probs))
AnyNaN(log_probs) ==
    \E r \in 1..Rows(log_probs), c \in 1..Cols(log_probs) : LogProbIsNaN(log_probs[r][c])

\* mutant: InfoNCE2 line 71 without the [num_positives_per_row > 0] selection
SelectedRows_all(num_positives_per_row) == 1..Len(num_positives_per_row)

\* x[num_positives_per_row > 0]: the entries of x at the selected rows, in order
SelectedRows(num_positives_per_row) ==
    {r \in 1..Len(num_positives_per_row) : num_positives_per_row[r] > 0}

RECURSIVE SetToSortedSeq(_)
SetToSortedSeq(S) ==
    IF S = {} THEN <<>>
    ELSE LET m == CHOOSE x \in S : \A y \in S : x <= y
         IN  <<m>> \o SetToSortedSeq(S \ {m})

\* lines 71-78: the per-row mean over the positives, and the loss
InfoNCE2_loss(l, T, scale_by_temperature) ==
    LET weighted == Elementwise(LAMBDA lp, w : [lp |-> lp, w |-> w],
                                l.log_probs, l.positives_mask)
        \* torch.sum(log_probs * positives_mask, axis=1)[r]:
        \*   logit_sum/tn - log_den_times * log(den + 1e-12)
        row_sum(r) == [logit_sum |-> SumSeq([c \in 1..Cols(weighted) |->
                                        weighted[r][c].w * weighted[r][c].lp.logit]),
                       log_den_times |-> SumSeq([c \in 1..Cols(weighted) |->
                                        weighted[r][c].w]),
                       den |-> weighted[r][1].lp.den]
        rows == SetToSortedSeq(SelectedRows(l.num_positives_per_row))
        log_probs == [i \in 1..Len(rows) |->
                         [row |-> rows[i], sum |-> row_sum(rows[i]),
                          divided_by |-> l.num_positives_per_row[rows[i]]]]
    IN  \* loss = -log_probs; loss *= temperature; loss.mean()
        [minus_mean_of |-> log_probs,
         times |-> IF scale_by_temperature THEN T ELSE <<1, 1>>,
         \* the mean of an empty tensor is NaN
         is_nan |-> log_probs = <<>>]

InfoNCE2_call ==
    /\ pc = "idle"
    /\ \E N \in 1..MaxN, cfg \in InfoNCE2_Configs :
       \E features \in [1..N -> InfoNCE2_Vectors] :
       \E lm \in ({None} \X ({None} \cup InfoNCE2_Masks(N)))
                 \cup (InfoNCE2_Labels \X {None, Eye(N), OnesLike(Eye(N))}) :
          args' = [fn |-> "InfoNCE2", features |-> features, labels |-> lm[1],
                   mask |-> lm[2], temperature |-> cfg.temperature,
                   scale_by_temperature |-> cfg.scale_by_temperature]
    /\ pc' = "InfoNCE2.check_input"
    /\ UNCHANGED <<loc, ret, confidence_store, last_call>>

InfoNCE2_forward_check_input ==
    /\ pc = "InfoNCE2.check_input"
    /\ LET r == InfoNCE2_check_input(args.features, args.labels, args.mask)
       IN  IF "raised" \in DOMAIN r
           THEN pc' = "raised" /\ ret' = r /\ loc' = loc
           ELSE pc' = "InfoNCE2.compute_logits" /\ loc' = r /\ ret' = ret
    /\ UNCHANGED <<args, confidence_store, last_call>>

InfoNCE2_forward_compute_logits ==
    /\ pc = "InfoNCE2.compute_logits"
    /\ loc' = loc @@ InfoNCE2_compute_logits(args.features, args.temperature)
    /\ pc' = "InfoNCE2.make_mask"
    /\ UNCHANGED <<args, ret, confidence_store, last_call>>

InfoNCE2_forward_make_mask ==
    /\ pc = "InfoNCE2.make_mask"
    /\ LET r == InfoNCE2_make_mask(loc)
       IN  IF "raised" \in DOMAIN r
           THEN pc' = "raised" /\ ret' = r /\ loc' = loc
           ELSE pc' = "InfoNCE2.loss" /\ loc' = loc @@ r /\ ret' = ret
    /\ UNCHANGED <<args, confidence_store, last_call>>

InfoNCE2_forward_loss ==
    /\ pc = "InfoNCE2.loss"
    /\ IF AnyNaN(loc.log_probs)
       THEN pc' = "raised" /\ ret' = [raised |-> "ValueError: Log_prob has nan!"]
       ELSE /\ pc' = "returned"
            /\ ret' = [loss |-> InfoNCE2_loss(loc, args.temperature,
                                              args.scale_by_temperature)]
    /\ UNCHANGED <<args, loc, confidence_store, last_call>>

(***************************************************************************)
(* class SupConLoss                                                        *)
(***************************************************************************)
SupCon_Vectors == {<<1, 0>>, <<0, 1>>}

\* temperature=0.07 and base_temperature=0.07 (the defaults) as 7/100
SupCon_temperature == <<7, 100>>
SupCon_base_temperature == <<7, 100>>

\* the rows a caller's positive mask is made of, for anchor i of batch_size
\* anchors over M contrast features: no positive, every feature, the anchor
\* itself, the anchor's other view
SupCon_MaskRows(i, batch_size, M) ==
    {[c \in 1..M |-> 0], [c \in 1..M |-> 1],
     [c \in 1..M |-> IF c = i THEN 1 ELSE 0],
     [c \in 1..M |-> IF c = i + batch_size THEN 1 ELSE 0]}

SupCon_Masks(batch_size, M) ==
    {m \in [1..batch_size -> UNION {SupCon_MaskRows(i, batch_size, M) : i \in 1..batch_size}] :
        \A i \in 1..batch_size : m[i] \in SupCon_MaskRows(i, batch_size, M)}

SupCon_Weights(batch_size) == {None, [i \in 1..batch_size |-> 1], [i \in 1..batch_size |-> i]}

\* mutant: SupConLoss lines 105-110 and ConLoss lines 199-204 scattering 1 instead of 0
ScatterDiagonalZero_nothing_zeroed(mask, batch_size) ==
    [r \in 1..Rows(mask) |-> [c \in 1..Cols(mask) |-> 1]]

\* torch.scatter(torch.ones_like(mask), 1, torch.arange(batch_size).view(-1, 1), 0)
ScatterDiagonalZero(mask, batch_size) ==
    [r \in 1..Rows(mask) |-> [c \in 1..Cols(mask) |->
        IF r <= batch_size /\ c = r THEN 0 ELSE 1]]

\* lines 93-127: "SupCon loss (Partial Label Mode)"
SupCon_supervised(features, mask_in, batch_size, weights) ==
    LET T == SupCon_temperature
        anchors == SubSeq(features, 1, batch_size)
        anchor_dot_contrast == [r \in 1..Len(anchors) |-> [c \in 1..Len(features) |->
                                   Dot(anchors[r], features[c]) * T[2]]]
        logits_max == [r \in 1..Len(anchors) |-> <<MaxSeq(anchor_dot_contrast[r])>>]
        logits == Elementwise(Minus, anchor_dot_contrast, logits_max)
        logits_mask == ScatterDiagonalZero(mask_in, batch_size)
        mask == Elementwise(Times, mask_in, logits_mask)
        exp_logits == Elementwise(LAMBDA k, w : PExp(w, k), logits, logits_mask)
        \* logits - torch.log(exp_logits.sum(1, keepdim=True) + 1e-12)
        log_prob == [r \in 1..Rows(logits) |-> [c \in 1..Cols(logits) |->
                        [logit |-> logits[r][c], den |-> PSumSeq(exp_logits[r]),
                         eps |-> TRUE]]]
        \* (mask * log_prob).sum(1) / mask.sum(1); 0/0 is NaN
        mean_log_prob_pos == [r \in 1..Rows(mask) |->
            [logit_sum |-> SumSeq([c \in 1..Cols(mask) |-> mask[r][c] * log_prob[r][c].logit]),
             log_den_times |-> SumSeq(mask[r]),
             den |-> log_prob[r][1].den,
             divided_by |-> SumSeq(mask[r])]]
    IN  [logits |-> logits, logits_mask |-> logits_mask, mask |-> mask,
         exp_logits |-> exp_logits, log_prob |-> log_prob,
         mean_log_prob_pos |-> mean_log_prob_pos,
         \* - (temperature / base_temperature) * mean_log_prob_pos, then the mean
         loss |-> [minus_mean_of |-> mean_log_prob_pos,
                   times |-> <<T[1] * SupCon_base_temperature[2],
                               T[2] * SupCon_base_temperature[1]>>,
                   weights |-> weights,
                   is_nan |-> \E r \in 1..Rows(mask) : SumSeq(mask[r]) = 0]]

\* lines 128-147: "MoCo loss (unsupervised)"
SupCon_moco(features, batch_size) ==
    LET T == SupCon_temperature
        q == SubSeq(features, 1, batch_size)
        k == SubSeq(features, batch_size + 1, batch_size * 2)
        queue == SubSeq(features, batch_size * 2 + 1, Len(features))
        l_pos == [n \in 1..Len(q) |-> <<Dot(q[n], k[n])>>]
        l_neg == [n \in 1..Len(q) |-> [j \in 1..Len(queue) |-> Dot(q[n], queue[j])]]
        \* torch.cat([l_pos, l_neg], dim=1) / temperature
        logits == [n \in 1..Len(q) |-> [j \in 1..(1 + Len(queue)) |->
                      (l_pos[n] \o l_neg[n])[j] * T[2]]]
        \* F.cross_entropy(logits, zeros): the mean of -log(e^logit0 / sum_j e^logitj)
        rows == [n \in 1..Len(q) |->
                    [neglog |-> R(PExp(1, logits[n][1]),
                                  PSumSeq([j \in 1..Len(logits[n]) |-> PExp(1, logits[n][j])]))]]
    IN  [logits |-> logits, loss |-> [sum_of |-> rows, divided_by |-> Len(q)]]

SupCon_call ==
    /\ pc = "idle"
    /\ \E batch_size \in 1..MaxN :
       \E M \in {2 * batch_size, 2 * batch_size + 1} :
       \E features \in [1..M -> SupCon_Vectors] :
       \E mask \in {None} \cup SupCon_Masks(batch_size, M) :
       \E weights \in SupCon_Weights(batch_size) :
          \* the queue-based call has a queue entry; the supervised one has none
          /\ IF mask = None THEN weights = None ELSE M = 2 * batch_size
          /\ args' = [fn |-> "SupConLoss", features |-> features, mask |-> mask,
                      batch_size |-> batch_size, weights |-> weights]
    /\ pc' = "SupConLoss.forward"
    /\ UNCHANGED <<loc, ret, confidence_store, last_call>>

SupCon_forward_supervised ==
    /\ pc = "SupConLoss.forward"
    /\ args.mask # None
    /\ loc' = SupCon_supervised(args.features, args.mask, args.batch_size, args.weights)
    /\ ret' = [loss |-> loc'.loss]
    /\ pc' = "returned"
    /\ UNCHANGED <<args, confidence_store, last_call>>

SupCon_forward_moco ==
    /\ pc = "SupConLoss.forward"
    /\ args.mask = None
    /\ loc' = SupCon_moco(args.features, args.batch_size)
    /\ ret' = [loss |-> loc'.loss]
    /\ pc' = "returned"
    /\ UNCHANGED <<args, confidence_store, last_call>>

(***************************************************************************)
(* class ConLoss                                                           *)
(***************************************************************************)
\* self.temperature = 0.1 as 1/10, base_temperature=0.07 (the default) as 7/100
ConLoss_temperature == <<1, 10>>
ConLoss_base_temperature == <<7, 100>>

\* a row of the candidate matrix Y over two classes, the empty candidate set included
ConLoss_YRows == {<<0, 0>>, <<1, 0>>, <<0, 1>>, <<1, 1>>}

\* a row of the classifier's outputs
ConLoss_OutputRows == {<<0, 1>>, <<2, 0>>}

\* features[i] holds the two views of sample i; every sample has the same pair
ConLoss_Features(N) ==
    {[i \in 1..N |-> views] : views \in {<<<<1, 0>>, <<1, 0>>>>, <<<<1, 0>>, <<0, 1>>>>}}

\* F.softmax(x, dim=1): e^x[c] / sum_k e^x[k] per row
Softmax(x) ==
    [r \in 1..Rows(x) |-> [c \in 1..Cols(x) |->
        R(PExp(1, x[r][c]), PSumSeq([k \in 1..Cols(x) |-> PExp(1, x[r][k])]))]]

\* a < b for two entries of one row of Y * softmax: they share the denominator
\* and compare by their numerators, each 0 or e^k
LessInRow(a, b) ==
    /\ b.n # PZero
    /\ \/ a.n = PZero
       \/ (CHOOSE k \in DOMAIN a.n : TRUE) < (CHOOSE k \in DOMAIN b.n : TRUE)

\* x.max(1)[1]: the index of the first largest entry of a row
ArgMaxRow(row) ==
    CHOOSE c \in 1..Len(row) :
        /\ \A k \in 1..Len(row) : ~LessInRow(row[c], row[k])
        /\ \A k \in 1..(c - 1) : LessInRow(row[k], row[c])

\* (Y == 1.0).nonzero(): the (sample, class) pairs of Y, row by row
RECURSIVE NonzeroFrom(_, _, _)
NonzeroFrom(Y, r, c) ==
    IF r > Rows(Y) THEN <<>>
    ELSE IF c > Cols(Y) THEN NonzeroFrom(Y, r + 1, 1)
    ELSE (IF Y[r][c] = 1 THEN <<<<r, c>>>> ELSE <<>>) \o NonzeroFrom(Y, r, c + 1)

Nonzero(Y) == NonzeroFrom(Y, 1, 1)

\* mutant: ConLoss line 191 matching only the samples other than sample_idx
MatchedSamples_others_only(predict_labels, sample_idx, class_idx) ==
    [j \in 1..Len(predict_labels[sample_idx]) |->
        IF predict_labels[sample_idx][j] = class_idx /\ j # sample_idx THEN 1 ELSE 0]

\* where(predict_labels[sample_idx] == class_idx, ones_flag, zeros_flag)
MatchedSamples(predict_labels, sample_idx, class_idx) ==
    [j \in 1..Len(predict_labels[sample_idx]) |->
        IF predict_labels[sample_idx][j] = class_idx THEN 1 ELSE 0]

\* lines 188-195: the loop over pos_set.  st.mask_logits is the mask built so
\* far, st.steps the mask_logits_tmp of every iteration that passed the test
RECURSIVE ConLoss_mask_loop(_, _, _, _)
ConLoss_mask_loop(pos_set, st, predict_labels, confidence) ==
    IF pos_set = <<>> THEN st
    ELSE
    LET sample_idx == Head(pos_set)[1]
        class_idx  == Head(pos_set)[2]
        matched    == MatchedSamples(predict_labels, sample_idx, class_idx)
        total      == SumSeq(matched)
        \* mask_logits_tmp / mask_logits_tmp.sum()
        mask_logits_tmp == [j \in 1..Len(matched) |-> R(PConst(matched[j]), PConst(total))]
        next == IF total > 0
                THEN [mask_logits |->
                         [st.mask_logits EXCEPT ![sample_idx] =
                             [j \in 1..Len(matched) |->
                                 RAdd(@[j], RMul(mask_logits_tmp[j],
                                                 confidence[sample_idx][class_idx]))]],
                      steps |-> Append(st.steps,
                                       [sample_idx |-> sample_idx, class_idx |-> class_idx,
                                        mask_logits_tmp |-> mask_logits_tmp])]
                ELSE st
    IN  ConLoss_mask_loop(Tail(pos_set), next, predict_labels, confidence)

\* lines 175-195: the predicted labels and the N x N pseudo-positive mask
ConLoss_pseudo_positives(confidence, outputs, Y) ==
    LET batch_size == Rows(Y)
        output_sm == Softmax(SubSeq(outputs, 1, batch_size))
        \* (output_sm_d * Y).max(1)
        target_predict == [i \in 1..batch_size |->
                              ArgMaxRow([c \in 1..Cols(Y) |->
                                            RMul(output_sm[i][c], RInt(Y[i][c]))])]
        predict_labels == [i \in 1..batch_size |-> target_predict]
        zeros == [i \in 1..batch_size |-> [j \in 1..batch_size |-> RZero]]
        looped == ConLoss_mask_loop(Nonzero(Y), [mask_logits |-> zeros, steps |-> <<>>],
                                    predict_labels, confidence)
    IN  [batch_size |-> batch_size, output_sm |-> output_sm,
         target_predict |-> target_predict, pos_set |-> Nonzero(Y),
         loop_steps |-> looped.steps, mask_logits_NxN |-> looped.mask_logits]

\* lines 161-171 and 197-212: the contrastive loss over the flattened views
ConLoss_contrast(features, mask_NxN) ==
    LET T == ConLoss_temperature
        batch_size == Len(features)
        contrast_count == Len(features[1])
        \* torch.cat(torch.unbind(features, dim=1), dim=0): view by view
        contrast_feature == [k \in 1..(contrast_count * batch_size) |->
                                features[((k - 1) % batch_size) + 1]
                                        [((k - 1) \div batch_size) + 1]]
        anchor_count == contrast_count
        anchor_dot_contrast == [r \in 1..Len(contrast_feature) |->
                                   [c \in 1..Len(contrast_feature) |->
                                       Dot(contrast_feature[r], contrast_feature[c]) * T[2]]]
        logits_max == [r \in 1..Len(contrast_feature) |-> <<MaxSeq(anchor_dot_contrast[r])>>]
        logits == Elementwise(Minus, anchor_dot_contrast, logits_max)
        \* mask_logits.repeat(anchor_count, contrast_count)
        repeated == [r \in 1..(anchor_count * batch_size) |->
                        [c \in 1..(contrast_count * batch_size) |->
                            mask_NxN[((r - 1) % batch_size) + 1][((c - 1) % batch_size) + 1]]]
        logits_mask == ScatterDiagonalZero(repeated, batch_size * anchor_count)
        mask_logits == Elementwise(LAMBDA m, w : RMul(m, RInt(w)), repeated, logits_mask)
        exp_logits == Elementwise(LAMBDA w, k : PExp(w, k), logits_mask, logits)
        \* logits - torch.log(exp_logits.sum(1, keepdim=True))
        log_prob == [r \in 1..Rows(logits) |-> [c \in 1..Cols(logits) |->
                        [logit |-> logits[r][c], den |-> PSumSeq(exp_logits[r]),
                         eps |-> FALSE]]]
        \* (mask_logits * log_prob).sum(1): the weights and what they weigh
        mean_log_prob_pos == [r \in 1..Rows(logits) |->
                                 [weights |-> mask_logits[r], log_prob |-> log_prob[r]]]
    IN  [logits |-> logits, logits_mask |-> logits_mask, mask_logits |-> mask_logits,
         \* - (temperature / base_temperature) * mean_log_prob_pos, then the mean
         loss_con |-> [minus_mean_of |-> mean_log_prob_pos,
                       times |-> <<T[1] * ConLoss_base_temperature[2],
                                   T[2] * ConLoss_base_temperature[1]>>]]

\* mutant: ConLoss line 216 left out: the product is returned without the division
ConLoss_new_target_not_normalised(Y, output_sm_d) ==
    Elementwise(LAMBDA y, p : RMul(RInt(y), p), Y, output_sm_d)

\* mutant: ConLoss line 215 left out: the softmax is normalised without Y
ConLoss_new_target_without_Y(Y, output_sm_d) ==
    LET row_sum == [i \in 1..Rows(Y) |-> RSumSeq(output_sm_d[i])]
    IN  [i \in 1..Rows(Y) |-> [c \in 1..Cols(Y) |-> RDiv(output_sm_d[i][c], row_sum[i])]]

\* lines 214-217: Y * softmax, each row divided by its sum
ConLoss_new_target(Y, output_sm_d) ==
    LET revisedY_raw == Elementwise(LAMBDA y, p : RMul(RInt(y), p), Y, output_sm_d)
        row_sum == [i \in 1..Rows(Y) |-> RSumSeq(revisedY_raw[i])]
    IN  [i \in 1..Rows(Y) |-> [c \in 1..Cols(Y) |-> RDiv(revisedY_raw[i][c], row_sum[i])]]

\* mutant: ConLoss line 214 cloning the confidence instead of Y
ConLoss_locals_target_from_confidence(confidence, outputs, features, Y) ==
    LET pp == ConLoss_pseudo_positives(confidence, outputs, Y)
        cl == ConLoss_contrast(features, pp.mask_logits_NxN)
        revised == Elementwise(RMul, confidence, pp.output_sm)
        row_sum == [i \in 1..Rows(Y) |-> RSumSeq(revised[i])]
    IN  pp @@ cl @@ [new_target |-> [i \in 1..Rows(Y) |-> [c \in 1..Cols(Y) |->
                                        RDiv(revised[i][c], row_sum[i])]]]

\* ConLoss.forward(confidence, outputs, features, Y, index): the locals of the call
ConLoss_locals(confidence, outputs, features, Y) ==
    LET pp == ConLoss_pseudo_positives(confidence, outputs, Y)
        cl == ConLoss_contrast(features, pp.mask_logits_NxN)
    IN  pp @@ cl @@ [new_target |-> ConLoss_new_target(Y, pp.output_sm)]

\* the confidence store before the first step: uniform over each sample's
\* candidates (a sample without candidates gets no mass)
InitialConfidence(Y) ==
    [i \in 1..Rows(Y) |-> [c \in 1..Cols(Y) |->
        IF SumSeq(Y[i]) = 0 THEN RZero ELSE R(PConst(Y[i][c]), PConst(SumSeq(Y[i])))]]

\* the training loop's first step on a data set: it reads the confidence of
\* the batch (index is the whole data set) and calls the loss
ConLoss_call ==
    /\ pc = "idle"
    /\ \E N \in 1..MaxN :
       \E Y \in [1..N -> ConLoss_YRows], outputs \in [1..N -> ConLoss_OutputRows],
          features \in ConLoss_Features(N) :
          /\ confidence_store' = InitialConfidence(Y)
          /\ args' = [fn |-> "ConLoss", confidence |-> confidence_store',
                      outputs |-> outputs, features |-> features, Y |-> Y,
                      index |-> [i \in 1..N |-> i]]
    /\ last_call' = None
    /\ pc' = "ConLoss.forward"
    /\ UNCHANGED <<loc, ret>>

ConLoss_forward ==
    /\ pc = "ConLoss.forward"
    /\ loc' = ConLoss_locals(args.confidence, args.outputs, args.features, args.Y)
    /\ ret' = [loss_con |-> loc'.loss_con, new_target |-> loc'.new_target]
    /\ pc' = "returned"
    /\ UNCHANGED <<args, confidence_store, last_call>>

\* the training loop's next step: it writes the returned target to the
\* confidence store at index, and calls the loss again with new outputs
ConLoss_write_back_and_call ==
    /\ pc = "returned"
    /\ args.fn = "ConLoss"
    /\ confidence_store' = [i \in 1..Len(confidence_store) |->
                               IF \E k \in 1..Len(args.index) : args.index[k] = i
                               THEN ret.new_target[CHOOSE k \in 1..Len(args.index) :
                                                       args.index[k] = i]
                               ELSE confidence_store[i]]
    /\ last_call' = [outputs |-> args.outputs, features |-> args.features, Y |-> args.Y,
                     index |-> args.index, new_target |-> ret.new_target]
    /\ \E outputs \in [1..Len(args.Y) -> ConLoss_OutputRows] :
          args' = [args EXCEPT !.confidence = confidence_store', !.outputs = outputs]
    /\ pc' = "ConLoss.forward"
    \* the locals and the returned pair of the finished call are gone
    /\ loc' = None
    /\ ret' = None

(***************************************************************************)
(* Specifications                                                          *)
(***************************************************************************)
Init ==
    /\ pc = "idle"
    /\ args = None
    /\ loc = None
    /\ ret = None
    /\ confidence_store = None
    /\ last_call = None

NextInfoNCE == InfoNCE_call \/ InfoNCE_forward

SpecInfoNCE == Init /\ [][NextInfoNCE]_vars

NextInfoNCE2 ==
    \/ InfoNCE2_call
    \/ InfoNCE2_forward_check_input
    \/ InfoNCE2_forward_compute_logits
    \/ InfoNCE2_forward_make_mask
    \/ InfoNCE2_forward_loss

SpecInfoNCE2 == Init /\ [][NextInfoNCE2]_vars

NextSupCon == SupCon_call \/ SupCon_forward_supervised \/ SupCon_forward_moco

SpecSupCon == Init /\ [][NextSupCon]_vars

NextConLoss == ConLoss_call \/ ConLoss_forward \/ ConLoss_write_back_and_call

SpecConLoss == Init /\ [][NextConLoss]_vars

Next ==
    \/ InfoNCE_call
    \/ InfoNCE_forward
    \/ InfoNCE2_call
    \/ InfoNCE2_forward_check_input
    \/ InfoNCE2_forward_compute_logits
    \/ InfoNCE2_forward_make_mask
    \/ InfoNCE2_forward_loss
    \/ SupCon_call
    \/ SupCon_forward_supervised
    \/ SupCon_forward_moco
    \/ ConLoss_call
    \/ ConLoss_forward
    \/ ConLoss_write_back_and_call

Spec == Init /\ [][Next]_vars

(***************************************************************************)
(* Properties                                                              *)
(***************************************************************************)
IsNone(x) == DOMAIN x = {}

Called(fn) == pc # "idle" /\ args.fn = fn

Returned(fn) == pc = "returned" /\ args.fn = fn

\* the sum of f[c] over the columns c of cs
SumAt(f, cs) == SumSeq([c \in 1..Len(f) |-> IF c \in cs THEN f[c] ELSE 0])

----------------------------------------------------------------------------
\* InfoNCE2 is given both labels and mask, or labels whose number is not the
\* number of feature rows
C1_BadCall ==
    \/ args.labels # None /\ args.mask # None
    \/ args.labels # None /\ Len(args.labels) # Len(args.features)

\* C1: a call of InfoNCE2.forward with both labels and mask, or with labels
\* whose length differs from the number of feature rows, ends raised, and it
\* is raised by the input check: no local (similarity, logits, masks) has been
\* computed and no loss is returned.
C1_RejectedBeforeComputation ==
    Called("InfoNCE2") /\ C1_BadCall =>
        /\ pc \in {"InfoNCE2.check_input", "raised"}
        /\ IsNone(loc)
        /\ pc = "raised" => "raised" \in DOMAIN ret /\ "loss" \notin DOMAIN ret
        /\ pc # "raised" => IsNone(ret)

\* a call with three labels for two features has been rejected
C1_Witness ==
    /\ Called("InfoNCE2") /\ pc = "raised"
    /\ args.mask = None /\ args.labels # None
    /\ Len(args.labels) > Len(args.features)
    /\ IsNone(loc)

----------------------------------------------------------------------------
\* the loss -mean_i(row_i) is log 2: every selected row is
\* logit - log(den) with den = 2 * e^logit, and there is a selected row
LossEqualsLog2(loss) ==
    /\ ~loss.is_nan
    /\ loss.minus_mean_of # <<>>
    /\ loss.times[1] = loss.times[2]
    /\ \A i \in 1..Len(loss.minus_mean_of) :
          LET t == loss.minus_mean_of[i]
          IN  /\ t.sum.log_den_times = t.divided_by
              /\ t.sum.logit_sum % t.divided_by = 0
              /\ t.sum.den = PExp(2, t.sum.logit_sum \div t.divided_by)

C2_DefaultCall ==
    /\ Called("InfoNCE2")
    /\ args.labels = None /\ args.mask = None
    /\ args.features = <<<<1, 0>>, <<0, 1>>>>
    /\ args.temperature[1] = args.temperature[2]

\* C2: InfoNCE2.forward with neither labels nor mask on the two orthogonal
\* unit vectors (1,0), (0,1) and temperature 1.0 returns log(2), a mean over a
\* non-empty set of rows.
C2_DefaultModeLossIsLog2 ==
    C2_DefaultCall /\ pc \in {"returned", "raised"} =>
        pc = "returned" /\ LossEqualsLog2(ret.loss)

----------------------------------------------------------------------------
C5_MaskCall == Called("InfoNCE2") /\ args.labels = None /\ args.mask # None

\* the mask's shape broadcasts against N x N
C5_Fits ==
    LET N == Len(args.features)
    IN  /\ Len(args.mask) = N \/ Len(args.mask) = 1 \/ N = 1
        /\ Len(args.mask[1]) = N \/ Len(args.mask[1]) = 1 \/ N = 1

\* C5 as claimed: a call whose mask has a row count other than the number of
\* feature rows never returns a loss.
C5_MaskRowMismatchRaises ==
    C5_MaskCall /\ Len(args.mask) # Len(args.features) => pc # "returned"

\* C5 as amended: the mask's row count is not validated.  A call with a mask
\* alone returns a loss exactly when the mask's shape broadcasts against
\* N x N (a one-row mask is applied to every anchor); otherwise the tensor
\* library raises in the mask computation, after the logits were computed.
C5_MaskShapeNotValidated ==
    C5_MaskCall /\ pc \in {"returned", "raised"} =>
        /\ pc = "returned" <=> C5_Fits
        /\ pc = "raised" =>
              /\ ret.raised = "RuntimeError: The size of tensor a must match the size of tensor b"
              /\ "logits" \in DOMAIN loc
        /\ pc = "returned" /\ Len(args.mask) = 1 =>
              \A i \in 1..Len(loc.num_positives_per_row) :
                 loc.num_positives_per_row[i] =
                    SumAt(args.mask[1], (1..Len(args.mask[1])) \ {i})

\* a 1 x 2 mask with two features has returned a loss that is a number
C5_Witness ==
    /\ C5_MaskCall /\ pc = "returned"
    /\ Len(args.mask) = 1 /\ Len(args.features) = 2
    /\ ~ret.loss.is_nan

----------------------------------------------------------------------------
\* the non-self positives of row r: the columns where the mask is 1 and the
\* identity is 0
C6_Positives(r) ==
    {c \in 1..BDim(Cols(loc.mask), loc.batch_size) :
        At(Eye(loc.batch_size), r, c) = 0 /\ At(loc.mask, r, c) = 1}

C6_Rows == 1..BDim(Rows(loc.mask), loc.batch_size)

\* C6: the loss InfoNCE2.forward returns is minus the mean, over exactly the
\* rows with at least one non-self positive, of the row's average
\* log-probability over its positives; a row without positives adds no term
\* and does not count in the divisor (with no row left the mean is NaN), and
\* nothing is raised for it: a call is raised only for both labels and mask,
\* a wrong number of labels, or a mask shape that cannot be broadcast.
C6_MeanOverRowsWithPositives ==
    /\ Returned("InfoNCE2") =>
          LET terms == ret.loss.minus_mean_of
              kept  == {r \in C6_Rows : C6_Positives(r) # {}}
          IN  /\ {terms[i].row : i \in 1..Len(terms)} = kept
              /\ Len(terms) = Cardinality(kept)
              /\ ret.loss.is_nan <=> kept = {}
              /\ \A i \in 1..Len(terms) :
                    LET r == terms[i].row
                    IN  /\ terms[i].divided_by = Cardinality(C6_Positives(r))
                        /\ terms[i].sum.log_den_times = Cardinality(C6_Positives(r))
                        /\ terms[i].sum.logit_sum =
                              SumSeq([c \in 1..BDim(Cols(loc.mask), loc.batch_size) |->
                                         IF c \in C6_Positives(r)
                                         THEN At(loc.logits, r, c) ELSE 0])
                        /\ terms[i].sum.den = At(loc.denominator, r, 1)
    /\ Called("InfoNCE2") /\ pc = "raised" =>
          \/ C1_BadCall
          \/ args.mask # None /\ ~C5_Fits

\* a 2 x 2 mask whose second row has no positive: the loss is the first row alone
C6_Witness ==
    /\ Returned("InfoNCE2")
    /\ Len(args.features) = 2 /\ args.mask # None /\ Len(args.mask) = 2
    /\ C6_Positives(1) # {} /\ C6_Positives(2) = {}
    /\ Len(ret.loss.minus_mean_of) = 1
    /\ ~ret.loss.is_nan

----------------------------------------------------------------------------
\* the sum of -log(n/d) is 0: the product of the n is the product of the d
LossIsZero(loss) ==
    PProdSeq([r \in 1..Len(loss.sum_of) |-> loss.sum_of[r].neglog.n]) =
    PProdSeq([r \in 1..Len(loss.sum_of) |-> loss.sum_of[r].neglog.d])

C7_PositiveColumn(r, N) == ((r - 1 + N) % (2 * N)) + 1

\* C7: in InfoNCE.forward the positive of row r of the 2N rows is column
\* (r+N) mod 2N, never r itself, and the row's denominator sums every column
\* but r, the positive one included; with N = 1 and z_i = z_j each row's
\* denominator is its positive term alone and the loss is 0.
C7_PositivePairInDenominator ==
    Returned("InfoNCE") =>
        LET N  == Len(args.z_i)
            z  == args.z_i \o args.z_j
            td == args.temperature[2]
            term(r, c) == PExp(1, CosineSimilarity(z[r], z[c]) * td)
        IN  /\ ret.loss.divided_by = 2 * N
            /\ Len(ret.loss.sum_of) = 2 * N
            /\ \A r \in 1..(2 * N) :
                  LET p == C7_PositiveColumn(r, N)
                  IN  /\ p # r
                      /\ loc.positives[r] = CosineSimilarity(z[r], z[p])
                      /\ ret.loss.sum_of[r].neglog.n = term(r, p)
                      /\ ret.loss.sum_of[r].neglog.d =
                            PSumSeq([c \in 1..(2 * N) |->
                                        IF c = r THEN PZero ELSE term(r, c)])
            /\ N = 1 /\ args.z_i = args.z_j =>
                  /\ \A r \in 1..2 : ret.loss.sum_of[r].neglog.d =
                                        ret.loss.sum_of[r].neglog.n
                  /\ LossIsZero(ret.loss)

\* one sample, identical views, and the loss is 0
C7_Witness ==
    /\ Returned("InfoNCE")
    /\ Len(args.z_i) = 1 /\ args.z_i = args.z_j
    /\ LossIsZero(ret.loss)

----------------------------------------------------------------------------
\* Y[i][c] * softmax(outputs)[i][c] over the sum of that product over row i
RefinedEntry(Y, outputs, i, c) ==
    R(PExp(Y[i][c], outputs[i][c]),
      PSumSeq([k \in 1..Len(Y[i]) |-> PExp(Y[i][k], outputs[i][k])]))

HasCandidate(Y, i) == \E c \in 1..Len(Y[i]) : Y[i][c] # 0

\* C3: every row of the target ConLoss.forward returns whose row of Y has a
\* nonzero entry sums to 1, entry (i,c) being Y[i][c]*softmax(outputs)[i][c]
\* over the sum of that product over the classes of row i.
C3_RefinedRowsSumToOne ==
    Returned("ConLoss") =>
        \A i \in 1..Len(args.Y) :
           HasCandidate(args.Y, i) =>
              /\ REq(RSumSeq(ret.new_target[i]), ROne)
              /\ \A c \in 1..Len(args.Y[i]) :
                    REq(ret.new_target[i][c], RefinedEntry(args.Y, args.outputs, i, c))

\* a sample with one candidate of two classes: the whole mass is on it
C3_Witness ==
    /\ Returned("ConLoss")
    /\ \E i \in 1..Len(args.Y) :
          /\ args.Y[i] = <<0, 1>>
          /\ REq(ret.new_target[i][2], ROne)
          /\ REq(RSumSeq(ret.new_target[i]), ROne)

----------------------------------------------------------------------------
\* the call in progress repeats the previous one, with the previous call's
\* target as its confidence
C4_FedBack ==
    /\ Called("ConLoss")
    /\ ~IsNone(last_call)
    /\ args.outputs = last_call.outputs
    /\ args.features = last_call.features
    /\ args.Y = last_call.Y
    /\ args.index = last_call.index
    /\ args.confidence = last_call.new_target

\* C4: a second ConLoss.forward call with the first call's target as its
\* confidence and the same outputs, features, Y and index returns the first
\* call's target again (a row of Y without candidate stays NaN).  The
\* confidence fed back selects each sample's predicted label, its row being
\* the normalised Y * softmax that the prediction maximises.
C4_FeedbackIsFixedPoint ==
    C4_FedBack /\ pc = "returned" =>
        \A i \in 1..Len(args.Y) : \A c \in 1..Len(args.Y[i]) :
           IF HasCandidate(args.Y, i)
           THEN REq(ret.new_target[i][c], last_call.new_target[i][c])
           ELSE IsNaN(ret.new_target[i][c]) /\ IsNaN(last_call.new_target[i][c])

\* a repeated call, fed the first target, has returned, for a sample with two
\* candidates whose confidence moved from the uniform start
C4_Witness ==
    /\ C4_FedBack /\ pc = "returned"
    /\ \E i \in 1..Len(args.Y) :
          /\ args.Y[i] = <<1, 1>>
          /\ ~REq(args.confidence[i][1], InitialConfidence(args.Y)[i][1])
          /\ REq(ret.new_target[i][1], args.confidence[i][1])

----------------------------------------------------------------------------
\* the samples whose predicted label is c, sample i itself included
C8_Matched(c) == {j \in 1..Len(loc.target_predict) : loc.target_predict[j] = c}

----------------------------------------------------------------------------
\* InfoNCE2 (with an N x N mask, the default or labels) and SupConLoss in its
\* supervised mode: the self-pair is zeroed, then the positives are counted
C9_ZeroedBeforeCounting ==
    /\ Returned("InfoNCE2") /\ Len(loc.mask) = loc.batch_size =>
          \A i \in 1..loc.batch_size :
             /\ loc.positives_mask[i][i] = 0
             /\ loc.num_positives_per_row[i] =
                   SumAt(loc.mask[i], (1..loc.batch_size) \ {i})
             /\ \A k \in 1..Len(ret.loss.minus_mean_of) :
                   ret.loss.minus_mean_of[k].row = i =>
                      ret.loss.minus_mean_of[k].divided_by =
                         SumAt(loc.mask[i], (1..loc.batch_size) \ {i})
    /\ Returned("SupConLoss") /\ args.mask # None =>
          \A i \in 1..args.batch_size :
             /\ loc.mask[i][i] = 0
             /\ loc.mean_log_prob_pos[i].divided_by =
                   SumAt(args.mask[i], (1..Len(args.mask[i])) \ {i})
             /\ loc.mean_log_prob_pos[i].log_den_times =
                   SumAt(args.mask[i], (1..Len(args.mask[i])) \ {i})

\* ConLoss: the mask used in the loss is 0 at every anchor's own column
C9_ConLossDiagonalZero ==
    Returned("ConLoss") =>
        \A r \in 1..Len(loc.mask_logits) : RIsZero(loc.mask_logits[r][r])

----------------------------------------------------------------------------
\* C10 as claimed: the target ConLoss.forward returns is 0 wherever Y is 0.
C10_TargetZeroOutsideCandidates ==
    Returned("ConLoss") =>
        \A i \in 1..Len(args.Y) : \A c \in 1..Len(args.Y[i]) :
           args.Y[i][c] = 0 => RIsZero(ret.new_target[i][c])

\* C10 as amended: for every sample with at least one candidate the returned
\* target is 0 wherever Y is 0 (the row of a sample without candidate is NaN);
\* the target is a function of Y and outputs alone; the confidence store the
\* call read is unchanged when it returns; and through the training steps
\* that write the target back, the store has no mass outside the candidates
\* of any sample that has one.
C10_NoMassOutsideCandidates ==
    Called("ConLoss") =>
        /\ \A i \in 1..Len(args.Y) : \A c \in 1..Len(args.Y[i]) :
              HasCandidate(args.Y, i) /\ args.Y[i][c] = 0 =>
                 RIsZero(confidence_store[i][c])
        /\ args.confidence = confidence_store
        /\ pc = "returned" =>
              \A i \in 1..Len(args.Y) : \A c \in 1..Len(args.Y[i]) :
                 IF HasCandidate(args.Y, i)
                 THEN /\ REq(ret.new_target[i][c],
                             RefinedEntry(args.Y, args.outputs, i, c))
                      /\ args.Y[i][c] = 0 => RIsZero(ret.new_target[i][c])
                 ELSE IsNaN(ret.new_target[i][c])

\* after a write-back, a later call has returned for a sample whose only
\* candidate is the class the classifier scores lower
C10_Witness ==
    /\ Returned("ConLoss")
    /\ ~IsNone(last_call)
    /\ \E i \in 1..Len(args.Y) :
          /\ args.Y[i] = <<1, 0>>
          /\ args.outputs[i] = <<0, 1>>
          /\ RIsZero(ret.new_target[i][2])
          /\ RIsZero(confidence_store[i][2])
          /\ REq(confidence_store[i][1], ROne)

=============================================================================
